---- MODULE Spec2Model ----
(***************************************************************************)
(* A model of rusty-bits.  The rq crate (src/rq/src/lib.rs, main.rs) is    *)
(* modelled as the state machine of one process invocation: main parses   *)
(* the command line, run builds the client and the request, dumps, sends  *)
(* and renders.  Text is a sequence of one-character strings, so that     *)
(* split, starts_with, split_off and the case folding of header names are *)
(* computed as the code computes them.  The archive crate                 *)
(* (src/archive/src/lib.rs) and the slug crate (src/slug/src/lib.rs) are  *)
(* processes of their own, each with its specification (SpecArchive,      *)
(* SpecSlug): a process uses the variables every process has and leaves   *)
(* those of the other programs at rest.                                   *)
(***************************************************************************)
EXTENDS Integers, Sequences, FiniteSets, TLC

VARIABLES
    cli,        \* the options given on the command line, as texts
    args,       \* Args, as clap parses cli
    pc,         \* where the process is in main and run
    client,     \* Option<Client>: what build_client returned
    req,        \* Option<Request>: what build_request returned
    trace,      \* the steps of build_request that ran
    resp,       \* Option<Response>: what client.execute returned
    err,        \* the error run returns, "none" while there is none
    stdout,     \* the lines printed with println!
    stderr,     \* the lines printed with eprintln!
    sent,       \* how many times client.execute was called
    written,    \* path |-> contents of the files the process wrote
    exit_code,  \* the exit status of the process, -1 while it runs
    archived,   \* archive: the snapshots the archive holds, oldest first
    data,       \* archive: Option<String>, the timemap text request returned
    timemap,    \* archive: Option<Timemap>, what parse returned
    result_url, \* archive: None until run selects; then Some of the Option<&String>
    clipboard,  \* archive: Option<String>, the text on the clipboard
    fs,         \* slug: the file system, path |-> "file", "dir" or "link"
    pending,    \* slug: the calls of crawl_dir and rename_entry still to run
    log         \* slug: the lines logged with debug!, info! and warn!

\* the variables of rq alone and of archive alone
rqVars == <<cli, client, req, trace, resp, sent, written>>
archiveVars == <<archived, data, timemap, result_url, clipboard>>
slugVars == <<fs, pending, log>>

vars == <<cli, args, pc, client, req, trace, resp, err, stdout, stderr, sent,
          written, exit_code, archiveVars, slugVars>>

\* the variables of a process that does not run
RqAtRest ==
    /\ cli = <<>>
    /\ client = <<>>
    /\ req = <<>>
    /\ trace = <<>>
    /\ resp = <<>>
    /\ sent = 0
    /\ written = <<>>
ArchiveAtRest ==
    /\ archived = <<>>
    /\ data = <<>>
    /\ timemap = <<>>
    /\ result_url = <<>>
    /\ clipboard = <<>>
SlugAtRest ==
    /\ fs = <<>>
    /\ pending = <<>>
    /\ log = <<>>

-----------------------------------------------------------------------------
(* Bounds of the model.                                                    *)

\* at most this many options are given on one command line
MaxFlags == 3
\* at most this many -H entries in a list of header sources
MaxHeaders == 2
\* longest inline -H entry drawn over HeaderAlphabet
MaxEntryLen == 3
\* longest --basic value drawn over AuthAlphabet
MaxAuthLen == 3

-----------------------------------------------------------------------------
(* Option<T> and Result<T>: None is the empty tuple, Some(x) is <<x>>.     *)

None == <<>>
Some(x) == <<x>>
IsSome(o) == Len(o) = 1
Unwrap(o) == o[1]

Ok(v) == [ok |-> TRUE, v |-> v, err |-> "none"]
Err(e) == [ok |-> FALSE, v |-> None, err |-> e]

-----------------------------------------------------------------------------
(* Text.                                                                   *)

Uppers == <<"A","B","C","D","E","G","H","L","O","P","R","S","T","U">>
Lowers == <<"a","b","c","d","e","g","h","l","o","p","r","s","t","u">>

IndexIn(c, table) == CHOOSE i \in 1..Len(table) : table[i] = c
IsIn(c, table) == \E i \in 1..Len(table) : table[i] = c

\* char::to_ascii_lowercase / to_uppercase on one character
LowerChar(c) == IF IsIn(c, Uppers) THEN Lowers[IndexIn(c, Uppers)] ELSE c
UpperChar(c) == IF IsIn(c, Lowers) THEN Uppers[IndexIn(c, Lowers)] ELSE c

ToLower(s) == [i \in 1..Len(s) |-> LowerChar(s[i])]
ToUpper(s) == [i \in 1..Len(s) |-> UpperChar(s[i])]

\* str::starts_with(char)
StartsWith(s, c) == Len(s) >= 1 /\ s[1] = c
\* String::split_off(1) on a clone: the text after the first character
SplitOff1(s) == SubSeq(s, 2, Len(s))

\* str::split(char).collect(): the pieces between the separators; a text with
\* n separators yields n + 1 pieces, the empty text yields one empty piece
RECURSIVE Split(_, _)
Split(s, c) ==
    IF \A i \in 1..Len(s) : s[i] # c
    THEN <<s>>
    ELSE LET i == CHOOSE k \in 1..Len(s) :
                      s[k] = c /\ \A j \in 1..(k - 1) : s[j] # c
         IN <<SubSeq(s, 1, i - 1)>> \o Split(SubSeq(s, i + 1, Len(s)), c)

\* all texts over an alphabet, of length at most n
RECURSIVE TextsUpTo(_, _)
TextsUpTo(alphabet, n) ==
    IF n = 0 THEN {<<>>}
    ELSE LET shorter == TextsUpTo(alphabet, n - 1)
         IN {<<>>} \cup {<<c>> \o t : c \in alphabet, t \in shorter}

\* all lists over a set of elements, of length 1..n
RECURSIVE ListsUpTo(_, _)
ListsUpTo(elems, n) ==
    IF n = 0 THEN {<<>>}
    ELSE LET shorter == ListsUpTo(elems, n - 1)
         IN {<<>>} \cup {<<e>> \o l : e \in elems, l \in shorter}

-----------------------------------------------------------------------------
(* JSON values, as serde_json::Value: a tag t and a payload s.  The payload *)
(* of an object is the sequence of its members in the order the parsed map *)
(* iterates them.                                                          *)

JStr(s) == [t |-> "str", s |-> s]
JNum(s) == [t |-> "num", s |-> s]
JArr(s) == [t |-> "arr", s |-> s]
JObj(members) == [t |-> "obj", s |-> members]
Member(k, v) == [k |-> k, v |-> v]

\* Value::as_str and Value::as_object
AsStr(j) == IF j.t = "str" THEN Some(j.s) ELSE None
AsObject(j) == IF j.t = "obj" THEN Some(j.s) ELSE None

\* the JSON documents of the model: text |-> the value serde_json parses it to
KnownJson ==
       (<<"{", "\"A\"", ":", "\"f\"", ",", "\"a\"", ":", "\"g\"", "}">>
            :> JObj(<<Member(<<"A">>, JStr(<<"f">>)), Member(<<"a">>, JStr(<<"g">>))>>))
    @@ (<<"{", "\"a\"", ":", "\"h\"", ",", "\"b\"", ":", "1", "}">>
            :> JObj(<<Member(<<"a">>, JStr(<<"h">>)), Member(<<"b">>, JNum(<<"1">>))>>))
    @@ (<<"{", "\"A b\"", ":", "\"k\"", ",", "\"b\"", ":", "1", "}">>
            :> JObj(<<Member(<<"A", " ", "b">>, JStr(<<"k">>)), Member(<<"b">>, JNum(<<"1">>))>>))
    @@ (<<"[", "]">> :> JArr(<<>>))
    @@ (<<"{", "\"a\"", ":", "1", "}">>
            :> JObj(<<Member(<<"a">>, JNum(<<"1">>))>>))
    @@ (<<"{", "\"file\"", ":", "\"d\"", ",", "\"n\"", ":", "1", ",",
          "\"note\"", ":", "\"hi\"", "}">>
            :> JObj(<<Member(<<"file">>, JStr(<<"d">>)), Member(<<"n">>, JNum(<<"1">>)),
                      Member(<<"note">>, JStr(<<"h", "i">>))>>))

\* serde_json::from_reader / from_str: the value, or a syntax error
ParseJson(text) ==
    IF text \in DOMAIN KnownJson THEN Ok(KnownJson[text]) ELSE Err("JsonError")

-----------------------------------------------------------------------------
(* The file system the process runs in.                                    *)

P_f == <<"f">>
P_g == <<"g">>
P_k == <<"k">>
P_n == <<"n">>
P_j == <<"j">>
P_c == <<"c">>
P_d == <<"d">>
P_m == <<"m">>
P_o == <<"o">>
P_x == <<"x", "/", "o">>

\* path |-> raw contents of every file that exists and can be opened
Files ==
       (P_f :> <<"{", "\"A\"", ":", "\"f\"", ",", "\"a\"", ":", "\"g\"", "}">>)
    @@ (P_g :> <<"{", "\"a\"", ":", "\"h\"", ",", "\"b\"", ":", "1", "}">>)
    @@ (P_k :> <<"{", "\"A b\"", ":", "\"k\"", ",", "\"b\"", ":", "1", "}">>)
    @@ (P_n :> <<"[", "]">>)
    @@ (P_j :> <<"o", "o", "p", "s">>)
    @@ (P_c :> <<"s", "=", "1">>)
    @@ (P_d :> <<"d", "a", "t", "a">>)

\* std::fs::File::open / fs::read_to_string
OpenFile(path) ==
    IF path \in DOMAIN Files THEN Ok(Files[path]) ELSE Err("NotFound")

\* paths fs::File::create can create (their directory exists)
Creatable == {P_o}

-----------------------------------------------------------------------------
(* Header names, values and maps (http::HeaderMap): a map is a function     *)
(* from lower-case names to the non-empty sequence of the name's values.   *)

COOKIE == <<"c", "o", "o", "k", "i", "e">>
AUTHORIZATION == <<"a", "u", "t", "h", "o", "r", "i", "z", "a", "t", "i", "o", "n">>

NameChars == {Uppers[i] : i \in 1..Len(Uppers)} \cup {Lowers[i] : i \in 1..Len(Lowers)}
                 \cup {"i", "k", "z", "n", "-", "1", "2"}
ControlChars == {"\n"}

\* HeaderName::from_str: rejects the empty name and any non-token character,
\* and folds the name to lower case
HeaderNameFromStr(s) ==
    IF Len(s) = 0 \/ \E i \in 1..Len(s) : s[i] \notin NameChars
    THEN Err("InvalidHeaderName")
    ELSE Ok(ToLower(s))

\* HeaderValue::from_str: rejects control characters, keeps the text as it is
HeaderValueFromStr(s) ==
    IF \E i \in 1..Len(s) : s[i] \in ControlChars
    THEN Err("InvalidHeaderValue")
    ELSE Ok(s)

EmptyMap == <<>>

\* a variant of Insert that keeps the value a name already has
Insert_KeepFirst(h, k, v) ==
    [x \in (DOMAIN h) \cup {k} |-> IF x \in DOMAIN h THEN h[x] ELSE <<v>>]

\* HeaderMap::insert: the name now has exactly this value
Insert(h, k, v) ==
    [x \in (DOMAIN h) \cup {k} |-> IF x = k THEN <<v>> ELSE h[x]]

\* HeaderMap::append (RequestBuilder::header): the value is added after the
\* values the name already has
AppendValue(h, k, v) ==
    [x \in (DOMAIN h) \cup {k} |->
        IF x = k THEN (IF k \in DOMAIN h THEN h[k] ELSE <<>>) \o <<v>> ELSE h[x]]

\* RequestBuilder::headers: every name of src replaces that name in dst
ReplaceHeaders(dst, src) ==
    [x \in (DOMAIN dst) \cup (DOMAIN src) |->
        IF x \in DOMAIN src THEN src[x] ELSE dst[x]]

-----------------------------------------------------------------------------
(* Header assembly: add_headers, add_headers_from_file, add_cookies.       *)

\* a variant of MemberText that takes the text of a number as well
MemberText_Coerced(value) == IF value.t \in {"str", "num"} THEN Some(value.s) ELSE None

\* add_headers_from_file, line 310: the text of a member's value, if it is one
MemberText(value) == AsStr(value)

\* add_headers_from_file, lines 309-316: the loop over the members, from the
\* i-th on; the first member that fails ends it
RECURSIVE InsertMembers(_, _, _)
InsertMembers(h, members, i) ==
    IF i > Len(members) THEN Ok(h)
    ELSE LET text == MemberText(members[i].v)
             name == HeaderNameFromStr(members[i].k)
             val  == HeaderValueFromStr(Unwrap(text))
         IN IF ~IsSome(text) THEN Err("BadHeaderValue")
            ELSE IF ~name.ok THEN Err(name.err)
            ELSE IF ~val.ok THEN Err(val.err)
            ELSE InsertMembers(Insert(h, name.v, val.v), members, i + 1)

add_headers_from_file(h, path) ==
    LET file == OpenFile(path)
        json == ParseJson(file.v)
        obj  == AsObject(json.v)
    IN IF ~file.ok THEN Err("HeaderFileError")
       ELSE IF ~json.ok THEN Err("HeaderFileError")
       ELSE IF ~IsSome(obj) THEN Ok(h)
       ELSE InsertMembers(h, Unwrap(obj), 1)

\* a variant of MalformedPair that lets an entry with further '=' through
MalformedPair_AtLeastTwo(header_pair) == Len(header_pair) < 2

\* add_headers, line 292: an inline entry must split into exactly two pieces
MalformedPair(header_pair) == Len(header_pair) # 2

\* add_headers, lines 291-297: one inline entry
AddInline(h, header) ==
    LET header_pair == Split(header, "=")
        name == HeaderNameFromStr(header_pair[1])
        val  == HeaderValueFromStr(header_pair[2])
    IN IF MalformedPair(header_pair) THEN Err("MalformedHeader")
       ELSE IF ~name.ok THEN Err(name.err)
       ELSE IF ~val.ok THEN Err(val.err)
       ELSE Ok(Insert(h, name.v, val.v))

\* add_headers, lines 285-299: the loop over the entries, from the i-th on
RECURSIVE AddEntries(_, _, _)
AddEntries(h, headers, i) ==
    IF i > Len(headers) THEN Ok(h)
    ELSE LET r == IF StartsWith(headers[i], "@")
                  THEN add_headers_from_file(h, SplitOff1(headers[i]))
                  ELSE AddInline(h, headers[i])
         IN IF ~r.ok THEN r ELSE AddEntries(r.v, headers, i + 1)

add_headers(headers_to_add) ==
    IF IsSome(headers_to_add)
    THEN AddEntries(EmptyMap, Unwrap(headers_to_add), 1)
    ELSE Ok(EmptyMap)

add_cookies(cookies) ==
    LET file == OpenFile(SplitOff1(cookies))
        text == IF StartsWith(cookies, "@") THEN file.v ELSE cookies
        val  == HeaderValueFromStr(text)
    IN IF StartsWith(cookies, "@") /\ ~file.ok THEN Err("CookieFileError")
       ELSE IF ~val.ok THEN Err(val.err)
       ELSE Ok(Insert(EmptyMap, COOKIE, val.v))

-----------------------------------------------------------------------------
(* URLs, proxies and methods.                                              *)

U_ok == <<"https", "://", "example.com">>
U_bad == <<"example.com">>
X_ok == <<"http", "://", "proxy">>
X_bare == <<"proxy">>
X_bad == <<"ftp", "://", "proxy">>

\* Url::parse: an absolute URL has a scheme; an empty path becomes "/"
UrlParse(text) ==
    IF Len(text) >= 3 /\ text[2] = "://"
    THEN Ok(IF Len(text) = 3 THEN text \o <<"/">> ELSE text)
    ELSE Err("InvalidURL")

\* reqwest::Proxy::all: a text without a scheme is read as http://text; the
\* scheme must be one a proxy can have
ProxyAll(text) ==
    LET first == UrlParse(text)
        url == IF first.ok THEN first ELSE UrlParse(<<"http", "://">> \o text)
    IN IF url.ok /\ url.v[1] \in {"http", "https", "socks5"}
       THEN Ok(url.v)
       ELSE Err("InvalidProxy")

Methods == {"GET", "HEAD", "POST", "PUT", "PATCH", "DELETE"}

\* a variant of parse_method that compares the token as it is written
parse_method_AsWritten(method) ==
    LET u == method
    IN CASE u = <<"G", "E", "T">> -> "GET"
         [] u = <<"H", "E", "A", "D">> -> "HEAD"
         [] u = <<"P", "O", "S", "T">> -> "POST"
         [] u = <<"P", "U", "T">> -> "PUT"
         [] u = <<"P", "A", "T", "C", "H">> -> "PATCH"
         [] u = <<"D", "E", "L", "E", "T", "E">> -> "DELETE"
         [] OTHER -> "GET"

\* parse_method: the token in upper case names one of the six methods, or GET
parse_method(method) ==
    LET u == ToUpper(method)
    IN CASE u = <<"G", "E", "T">> -> "GET"
         [] u = <<"H", "E", "A", "D">> -> "HEAD"
         [] u = <<"P", "O", "S", "T">> -> "POST"
         [] u = <<"P", "U", "T">> -> "PUT"
         [] u = <<"P", "A", "T", "C", "H">> -> "PATCH"
         [] u = <<"D", "E", "L", "E", "T", "E">> -> "DELETE"
         [] OTHER -> "GET"

-----------------------------------------------------------------------------
(* build_client.                                                           *)

USER_AGENT_DEFAULT == <<"github.com/davemolk/rusty-bits/rq">>

\* build_client, lines 179-181: the redirect policy of the client; reqwest
\* follows redirects unless the policy is set to none
RedirectPolicy(a) == IF ~a.redirects THEN "none" ELSE "follow"

build_client(a) ==
    LET proxy == ProxyAll(Unwrap(a.proxy))
    IN IF IsSome(a.proxy) /\ ~proxy.ok THEN Err("InvalidProxy")
       ELSE Ok([user_agent |-> IF IsSome(a.user_agent)
                               THEN Unwrap(a.user_agent) ELSE USER_AGENT_DEFAULT,
                redirect   |-> RedirectPolicy(a),
                http2_only |-> a.http2,
                proxy      |-> IF IsSome(a.proxy) THEN Some(proxy.v) ELSE None])

-----------------------------------------------------------------------------
(* build_request.  The builder b is threaded through the steps in the      *)
(* order of the code; a step that fails sets b.err, and every later step   *)
(* then leaves b as it is (the ? operator returns from build_request).     *)
(* b.trace lists the steps that ran.                                       *)

NewBuilder ==
    [err |-> "none", deferred |-> "none", trace |-> <<>>, method |-> "GET",
     url |-> None, headers |-> EmptyMap, body |-> None, timeout |-> None]

Ran(b, step) == [b EXCEPT !.trace = Append(@, step)]
Failed(b, step, e) == [b EXCEPT !.trace = Append(@, step), !.err = e]

\* lines 196-207
StepUrl(b, a) ==
    LET url == UrlParse(a.url)
    IN IF b.err # "none" THEN b
       ELSE IF ~url.ok THEN Failed(b, "url", "InvalidURL")
       ELSE [Ran(b, "url") EXCEPT
                !.url = Some(url.v),
                !.method = IF a.method \in Methods THEN a.method ELSE "GET"]

\* lines 209-210
StepHeaders(b, a) ==
    LET h == add_headers(a.headers)
    IN IF b.err # "none" THEN b
       ELSE IF ~h.ok THEN Failed(b, "headers", h.err)
       ELSE [Ran(b, "headers") EXCEPT !.headers = ReplaceHeaders(@, h.v)]

\* a variant of StepCookies that runs after a step that failed as well
StepCookies_Regardless(b, a) ==
    LET c == add_cookies(Unwrap(a.cookies))
    IN IF ~IsSome(a.cookies) THEN b
       ELSE IF ~c.ok THEN Failed(b, "cookies", c.err)
       ELSE IF b.err # "none" THEN b
       ELSE [Ran(b, "cookies") EXCEPT !.headers = ReplaceHeaders(@, c.v)]

\* lines 212-215
StepCookies(b, a) ==
    LET c == add_cookies(Unwrap(a.cookies))
    IN IF b.err # "none" \/ ~IsSome(a.cookies) THEN b
       ELSE IF ~c.ok THEN Failed(b, "cookies", c.err)
       ELSE [Ran(b, "cookies") EXCEPT !.headers = ReplaceHeaders(@, c.v)]

\* RequestBuilder::basic_auth: "Basic " and the base64 of user:password
BasicValue(user, password) ==
    <<"Basic", " ", "base64(">> \o user \o <<":">> \o password \o <<")">>
\* RequestBuilder::bearer_auth
BearerValue(token) == <<"Bearer", " ">> \o token

\* line 222: the user and the password taken from the pieces of the value
BasicUser(user_pw) == user_pw[1]
BasicPassword(user_pw) == user_pw[2]

\* lines 217-223
StepBasic(b, a) ==
    LET user_pw == Split(Unwrap(a.basic), ":")
    IN IF b.err # "none" \/ ~IsSome(a.basic) THEN b
       ELSE IF Len(user_pw) < 2 THEN Failed(b, "basic", "MalformedAuth")
       ELSE [Ran(b, "basic") EXCEPT
                !.headers = AppendValue(@, AUTHORIZATION,
                                BasicValue(BasicUser(user_pw), BasicPassword(user_pw)))]

\* lines 225-227; an invalid value is reported by build()
StepBearer(b, a) ==
    LET val == HeaderValueFromStr(BearerValue(Unwrap(a.bearer)))
    IN IF b.err # "none" \/ ~IsSome(a.bearer) THEN b
       ELSE IF ~val.ok THEN [Ran(b, "bearer") EXCEPT
                                !.deferred = IF @ = "none" THEN val.err ELSE @]
       ELSE [Ran(b, "bearer") EXCEPT
                !.headers = AppendValue(@, AUTHORIZATION, val.v)]

\* lines 229-231
StepTimeout(b, a) ==
    IF b.err # "none" \/ ~IsSome(a.timeout_seconds) THEN b
    ELSE [Ran(b, "timeout") EXCEPT !.timeout = a.timeout_seconds]

\* a variant of DataFile that sends an empty body for a file it cannot open
DataFile_EmptyIfMissing(d) ==
    LET file == OpenFile(SplitOff1(d))
    IN Ok([kind |-> "file", data |-> IF file.ok THEN file.v ELSE <<>>])

\* lines 234-238: the payload of a data value "@path"
DataFile(d) ==
    LET file == OpenFile(SplitOff1(d))
    IN IF ~file.ok THEN Err("FileNotFound")
       ELSE Ok([kind |-> "file", data |-> file.v])

\* lines 233-242
StepData(b, a) ==
    LET d == Unwrap(a.data)
        payload == IF StartsWith(d, "@") THEN DataFile(d)
                   ELSE Ok([kind |-> "text", data |-> d])
    IN IF b.err # "none" \/ ~IsSome(a.data) THEN b
       ELSE IF ~payload.ok THEN Failed(b, "data", payload.err)
       ELSE [Ran(b, "data") EXCEPT !.body = Some(payload.v)]

CONTENT_TYPE == <<"content-type">>

\* lines 250-260: the parts of the form, from the i-th member on; a text that
\* names an existing path is attached as a file, any other text as text, and
\* a member that is no text is skipped
RECURSIVE FormParts(_, _)
FormParts(members, i) ==
    IF i > Len(members) THEN <<>>
    ELSE LET text == AsStr(members[i].v)
             part == IF Unwrap(text) \in DOMAIN Files
                     THEN [name |-> members[i].k, kind |-> "file", value |-> Unwrap(text)]
                     ELSE [name |-> members[i].k, kind |-> "text", value |-> Unwrap(text)]
         IN (IF IsSome(text) THEN <<part>> ELSE <<>>) \o FormParts(members, i + 1)

\* a variant of StepForm that keeps a payload the data step has set
StepForm_KeepBody(b, a) ==
    LET form_json == ParseJson(Unwrap(a.form))
        object == AsObject(form_json.v)
        parts == IF IsSome(object) THEN FormParts(Unwrap(object), 1) ELSE <<>>
    IN IF b.err # "none" \/ ~IsSome(a.form) THEN b
       ELSE IF ~form_json.ok THEN Failed(b, "form", "BadForm")
       ELSE [Ran(b, "form") EXCEPT
                !.headers = AppendValue(@, CONTENT_TYPE, <<"multipart/form-data">>),
                !.body = IF IsSome(@) THEN @
                         ELSE Some([kind |-> "multipart", data |-> parts])]

\* lines 245-263; RequestBuilder::multipart adds the content type and
\* replaces the body
StepForm(b, a) ==
    LET form_json == ParseJson(Unwrap(a.form))
        object == AsObject(form_json.v)
        parts == IF IsSome(object) THEN FormParts(Unwrap(object), 1) ELSE <<>>
    IN IF b.err # "none" \/ ~IsSome(a.form) THEN b
       ELSE IF ~form_json.ok THEN Failed(b, "form", "BadForm")
       ELSE [Ran(b, "form") EXCEPT
                !.headers = AppendValue(@, CONTENT_TYPE, <<"multipart/form-data">>),
                !.body = Some([kind |-> "multipart", data |-> parts])]

\* lines 265-266: build() reports an error a builder call has left behind
StepBuild(b) ==
    IF b.err # "none" THEN b
    ELSE IF b.deferred # "none" THEN Failed(b, "build", b.deferred)
    ELSE Ran(b, "build")

\* the builder after every step of build_request
Built(a) ==
    StepBuild(StepForm(StepData(StepTimeout(StepBearer(StepBasic(
        StepCookies(StepHeaders(StepUrl(NewBuilder, a), a), a), a), a), a), a), a))

\* build_request: the Request, or the first error
build_request(a) ==
    LET b == Built(a)
    IN IF b.err # "none" THEN Err(b.err)
       ELSE Ok([method |-> b.method, url |-> Unwrap(b.url), headers |-> b.headers,
                body |-> b.body, timeout |-> b.timeout])

-----------------------------------------------------------------------------
(* The command lines of the model.                                         *)

T_GET == <<"G", "E", "T">>

\* Args as clap fills it when no option but the url is given (lines 19-113)
DefaultCli ==
    [url |-> U_ok, method |-> T_GET, basic |-> None, bearer |-> None,
     data |-> None, form |-> None, verbose |-> FALSE, debug |-> FALSE,
     timeout_seconds |-> None, headers |-> None, cookies |-> None,
     proxy |-> None, redirects |-> FALSE, http2 |-> FALSE,
     user_agent |-> None, download |-> None, pretty_print |-> FALSE]

Fields ==
    <<"url", "method", "basic", "bearer", "data", "form", "verbose", "debug",
      "timeout_seconds", "headers", "cookies", "proxy", "redirects", "http2",
      "user_agent", "download", "pretty_print">>

FormText ==
    <<"{", "\"file\"", ":", "\"d\"", ",", "\"n\"", ":", "1", ",",
      "\"note\"", ":", "\"hi\"", "}">>

\* the values an option is given in the runs that combine options
OptionValues ==
    [url |-> {U_bad},
     method |-> {<<"p", "o", "s", "t">>, <<"P", "U", "R">>, <<"H", "E", "A", "D">>},
     basic |-> {Some(<<"u", ":", "p">>), Some(<<"u", "p">>)},
     bearer |-> {Some(<<"t">>)},
     data |-> {Some(<<"x">>), Some(<<"@">> \o P_d), Some(<<"@">> \o P_m)},
     form |-> {Some(FormText), Some(<<"[", "]">>), Some(<<"o", "o", "p", "s">>)},
     verbose |-> {TRUE},
     debug |-> {TRUE},
     timeout_seconds |-> {Some(5)},
     headers |-> {Some(<<<<"A", "=", "a">>>>), Some(<<<<"@">> \o P_f>>), Some(<<<<"A">>>>)},
     cookies |-> {Some(<<"s", "=", "1">>), Some(<<"@">> \o P_c), Some(<<"@">> \o P_m)},
     proxy |-> {Some(X_ok), Some(X_bare), Some(X_bad)},
     redirects |-> {TRUE},
     http2 |-> {TRUE},
     user_agent |-> {Some(<<"ua">>)},
     download |-> {Some(P_o), Some(P_x)},
     pretty_print |-> {TRUE}]

FieldNames == {Fields[i] : i \in 1..Len(Fields)}

\* the values of an option on a command line that gives the options of given
Values(field, given) ==
    IF field \in given THEN OptionValues[field] ELSE {DefaultCli[field]}

\* the command lines that give exactly the options of given
CliGiving(given) ==
    [url : Values("url", given), method : Values("method", given),
     basic : Values("basic", given), bearer : Values("bearer", given),
     data : Values("data", given), form : Values("form", given),
     verbose : Values("verbose", given), debug : Values("debug", given),
     timeout_seconds : Values("timeout_seconds", given),
     headers : Values("headers", given), cookies : Values("cookies", given),
     proxy : Values("proxy", given), redirects : Values("redirects", given),
     http2 : Values("http2", given), user_agent : Values("user_agent", given),
     download : Values("download", given),
     pretty_print : Values("pretty_print", given)]

\* the sets of at most n options
GivenUpTo(n) == {given \in SUBSET FieldNames : Cardinality(given) <= n}

HeaderAlphabet == {"A", "a", "="}
AuthAlphabet == {"u", "p", ":"}

\* the header sources that lists are drawn over
ListedSources ==
    {<<"A", "=", "a">>, <<"a", "=", "A">>, <<"@">> \o P_f, <<"@">> \o P_g,
     <<"C", "o", "o", "k", "i", "e", "=", "a">>,
     <<"A", "u", "t", "h", "o", "r", "i", "z", "a", "t", "i", "o", "n", "=", "a">>}

\* header sources that fail, each in its own way, and one that does not
FaultySources ==
    {<<"A">>, <<"@">> \o P_m, <<"@">> \o P_g, <<"A", "=", "a">>}

\* one entry of any text over the alphabet or any header file; or a list of
\* up to MaxHeaders listed sources, or of as many sources that fail
HeaderLists ==
       {<<e>> : e \in TextsUpTo(HeaderAlphabet, MaxEntryLen)}
    \cup {<<<<"@">> \o p>> : p \in {P_f, P_g, P_k, P_n, P_j, P_m}}
    \cup (ListsUpTo(ListedSources, MaxHeaders) \ {<<>>})
    \cup (ListsUpTo(FaultySources, MaxHeaders) \ {<<>>})

BasicTexts == TextsUpTo(AuthAlphabet, MaxAuthLen)

\* a text with each of its letters in either case
RECURSIVE CaseVariants(_)
CaseVariants(s) ==
    IF s = <<>> THEN {<<>>}
    ELSE {<<c>> \o t : c \in {LowerChar(s[1]), UpperChar(s[1])},
                       t \in CaseVariants(Tail(s))}

\* the method tokens: the six names in every mix of cases, and tokens that
\* name no method
MethodTokens ==
    UNION {CaseVariants(name) :
              name \in {<<"G", "E", "T">>, <<"H", "E", "A", "D">>,
                        <<"P", "O", "S", "T">>, <<"P", "U", "T">>,
                        <<"P", "A", "T", "C", "H">>,
                        <<"D", "E", "L", "E", "T", "E">>}}
      \cup {<<>>, <<"P", "U", "R">>, <<"G", "E">>, <<"g", "e", "t", "s">>,
            <<"P", "O", "S", "T", " ">>}

\* the command lines of the model: up to MaxFlags options with the values
\* above, or any header list, any basic value or any method token beside at
\* most one of them
CommandLine(c) ==
    \/ \E given \in GivenUpTo(MaxFlags) : c \in CliGiving(given)
    \/ \E given \in GivenUpTo(1) : \E d \in CliGiving(given) : \E t \in MethodTokens :
          c = [d EXCEPT !.method = t]
    \/ \E given \in GivenUpTo(1) : \E d \in CliGiving(given) : \E h \in HeaderLists :
          c = [d EXCEPT !.headers = Some(h)]
    \/ \E given \in GivenUpTo(1) : \E d \in CliGiving(given) : \E t \in BasicTexts :
          c = [d EXCEPT !.basic = Some(t)]

\* Args::parse: clap runs parse_method on the method token (line 26)
ParseArgs(c) == [c EXCEPT !.method = parse_method(c.method)]

-----------------------------------------------------------------------------
(* Responses and terminal lines.                                           *)

B_json == <<"{", "\"a\"", ":", "1", "}">>
B_text == <<"o", "o", "p", "s">>

Response(status, body) == [status |-> status, body |-> body]

\* what the server may answer; a redirect reaches the caller only when the
\* client does not follow redirects
Responses(c) ==
    {Response(200, B_json), Response(200, B_text), Response(404, B_text)}
        \cup (IF c.redirect = "none" THEN {Response(302, B_text)} ELSE {})

\* a variant of IsSuccess that takes every status for a success
IsSuccess_Always(status) == TRUE

\* StatusCode::is_success
IsSuccess(status) == status >= 200 /\ status < 300

Line(kind, text) == [kind |-> kind, data |-> text]

Quote(s) == <<"\"">> \o s \o <<"\"">>

\* serde_json::to_string_pretty of a value of the model: two spaces of
\* indentation, one member per line
RECURSIVE PrettyMembers(_, _)
PrettyMembers(members, i) ==
    IF i > Len(members) THEN <<>>
    ELSE <<"  ">> \o Quote(members[i].k) \o <<":", " ">>
            \o (IF members[i].v.t = "str" THEN Quote(members[i].v.s) ELSE members[i].v.s)
            \o (IF i < Len(members) THEN <<",">> ELSE <<>>) \o <<"\n">>
            \o PrettyMembers(members, i + 1)

ToStringPretty(j) ==
    CASE j.t = "obj" ->
            IF Len(j.s) = 0 THEN <<"{", "}">>
            ELSE <<"{", "\n">> \o PrettyMembers(j.s, 1) \o <<"}">>
      [] j.t = "arr" -> <<"[", "]">>
      [] j.t = "str" -> Quote(j.s)
      [] OTHER -> j.s

-----------------------------------------------------------------------------
(* main and run.                                                           *)

Init ==
    /\ CommandLine(cli)
    /\ args = ParseArgs(cli)
    /\ pc = "build_client"
    /\ client = None
    /\ req = None
    /\ trace = <<>>
    /\ resp = None
    /\ err = "none"
    /\ stdout = <<>>
    /\ stderr = <<>>
    /\ sent = 0
    /\ written = <<>>
    /\ exit_code = -1
    /\ ArchiveAtRest
    /\ SlugAtRest

\* run, line 116
BuildClient ==
    /\ pc = "build_client"
    /\ LET c == build_client(args)
       IN IF c.ok
          THEN /\ client' = Some(c.v)
               /\ pc' = "build_request"
               /\ err' = err
          ELSE /\ client' = client
               /\ pc' = "exit"
               /\ err' = c.err
    /\ UNCHANGED <<cli, args, req, trace, resp, stdout, stderr, sent, written, exit_code>>
    /\ UNCHANGED <<archiveVars, slugVars>>

\* run, line 117
BuildRequest ==
    /\ pc = "build_request"
    /\ trace' = Built(args).trace
    /\ LET r == build_request(args)
       IN IF r.ok
          THEN /\ req' = Some(r.v)
               /\ pc' = "dump"
               /\ err' = err
          ELSE /\ req' = req
               /\ pc' = "exit"
               /\ err' = r.err
    /\ UNCHANGED <<cli, args, client, resp, stdout, stderr, sent, written, exit_code>>
    /\ UNCHANGED <<archiveVars, slugVars>>

\* a variant of DebugReturns that goes on to send the request
DebugReturns_Never(a) == FALSE

\* run, lines 132-134: in debug mode run returns before the request is sent
DebugReturns(a) == a.debug

\* run, lines 120-128: what the dump shows of a request
DumpOf(r) ==
    [version |-> "HTTP/1.1", url |-> r.url, method |-> r.method,
     headers |-> r.headers, timeout |-> r.timeout]

\* run, lines 119-134: the dump of the request, and the return in debug mode
Dump ==
    /\ pc = "dump"
    /\ stdout' = IF args.verbose \/ args.debug
                 THEN Append(stdout, Line("request", DumpOf(Unwrap(req))))
                 ELSE stdout
    /\ pc' = IF DebugReturns(args) THEN "exit" ELSE "execute"
    /\ UNCHANGED <<cli, args, client, req, trace, resp, err, stderr, sent, written, exit_code>>
    /\ UNCHANGED <<archiveVars, slugVars>>

\* run, line 136: the request is sent; the transport fails or a response
\* arrives
Execute ==
    /\ pc = "execute"
    /\ sent' = sent + 1
    /\ \/ /\ err' = "TransportError"
          /\ pc' = "exit"
          /\ resp' = resp
       \/ \E r \in Responses(Unwrap(client)) :
             /\ resp' = Some(r)
             /\ pc' = "status"
             /\ err' = err
    /\ UNCHANGED <<cli, args, client, req, trace, stdout, stderr, written, exit_code>>
    /\ UNCHANGED <<archiveVars, slugVars>>

\* run, lines 138-148: the notice of a status that is no success, and the
\* status line and headers in verbose mode
ReportStatus ==
    /\ pc = "status"
    /\ stderr' = IF ~IsSuccess(Unwrap(resp).status)
                 THEN Append(stderr, Line("status", Unwrap(resp).status))
                 ELSE stderr
    /\ stdout' = IF args.verbose
                 THEN Append(stdout, Line("response", Unwrap(resp).status))
                 ELSE stdout
    /\ pc' = "render"
    /\ UNCHANGED <<cli, args, client, req, trace, resp, err, sent, written, exit_code>>
    /\ UNCHANGED <<archiveVars, slugVars>>

\* a variant of Downloads that lets pretty_print take the body first
Downloads_UnlessPretty(a) == IsSome(a.download) /\ ~a.pretty_print

\* run, line 150: the download branch is taken
Downloads(a) == IsSome(a.download)

\* run, lines 150-155
Download ==
    /\ pc = "render"
    /\ Downloads(args)
    /\ LET download_path == Unwrap(args.download)
       IN IF download_path \in Creatable
          THEN /\ stdout' = Append(stdout, Line("downloading", <<"downloading file...">>))
               /\ written' = (download_path :> Unwrap(resp).body) @@ written
               /\ err' = err
          ELSE /\ stdout' = stdout
               /\ written' = written
               /\ err' = "IOError"
    /\ pc' = "exit"
    /\ UNCHANGED <<cli, args, client, req, trace, resp, stderr, sent, exit_code>>
    /\ UNCHANGED <<archiveVars, slugVars>>

\* run, lines 157-163: from_reader fails on a body that is no JSON and the ?
\* returns the error; to_string_pretty of a parsed value does not fail
PrettyPrint ==
    /\ pc = "render"
    /\ ~Downloads(args)
    /\ args.pretty_print
    /\ LET json_res == ParseJson(Unwrap(resp).body)
       IN IF json_res.ok
          THEN /\ stdout' = Append(stdout, Line("pretty", ToStringPretty(json_res.v)))
               /\ err' = err
          ELSE /\ stdout' = stdout
               /\ err' = "JsonError"
    /\ pc' = "exit"
    /\ UNCHANGED <<cli, args, client, req, trace, resp, stderr, sent, written, exit_code>>
    /\ UNCHANGED <<archiveVars, slugVars>>

\* run, lines 164-166
PrintRaw ==
    /\ pc = "render"
    /\ ~Downloads(args)
    /\ ~args.pretty_print
    /\ stdout' = Append(stdout, Line("raw", Unwrap(resp).body))
    /\ pc' = "exit"
    /\ UNCHANGED <<cli, args, client, req, trace, resp, err, stderr, sent, written, exit_code>>
    /\ UNCHANGED <<archiveVars, slugVars>>

\* a variant of Exit that reports the error and exits 0 all the same
Exit_AlwaysZero ==
    /\ pc = "exit"
    /\ IF err # "none"
       THEN /\ stderr' = Append(stderr, Line("error", <<err>>))
            /\ exit_code' = 0
       ELSE /\ stderr' = stderr
            /\ exit_code' = 0
    /\ pc' = "done"
    /\ UNCHANGED <<cli, args, client, req, trace, resp, err, stdout, sent, written>>
    /\ UNCHANGED <<archiveVars, slugVars>>

\* main, lines 6-9: an error of run is printed and the process exits 1
Exit ==
    /\ pc = "exit"
    /\ IF err # "none"
       THEN /\ stderr' = Append(stderr, Line("error", <<err>>))
            /\ exit_code' = 1
       ELSE /\ stderr' = stderr
            /\ exit_code' = 0
    /\ pc' = "done"
    /\ UNCHANGED <<cli, args, client, req, trace, resp, err, stdout, sent, written>>
    /\ UNCHANGED <<archiveVars, slugVars>>

Next ==
    \/ BuildClient
    \/ BuildRequest
    \/ Dump
    \/ Execute
    \/ ReportStatus
    \/ Download
    \/ PrettyPrint
    \/ PrintRaw
    \/ Exit

Spec == Init /\ [][Next]_vars

-----------------------------------------------------------------------------
(* Properties.                                                             *)

\* run has returned to main, or main has exited
Returned == pc \in {"exit", "done"}

\* how many times the character c occurs in s
CountChar(s, c) == Cardinality({i \in 1..Len(s) : s[i] = c})
\* the text before, and the text after, the first c of s (s has a c)
FirstAt(s, c) == CHOOSE i \in 1..Len(s) : s[i] = c /\ \A j \in 1..(i - 1) : s[j] # c
BeforeFirst(s, c) == SubSeq(s, 1, FirstAt(s, c) - 1)
AfterFirst(s, c) == SubSeq(s, FirstAt(s, c) + 1, Len(s))

\* the errors of the steps that come before the header assembly
BeforeHeadersErrors == {"InvalidProxy", "InvalidURL"}
\* the errors of the header assembly
HeaderErrors ==
    {"MalformedHeader", "InvalidHeaderName", "InvalidHeaderValue",
     "HeaderFileError", "BadHeaderValue"}

\* C1: build_client sets the policy that never follows redirects exactly
\* when the no-redirects flag is given.
C1_NoRedirectsExactlyWhenFlag ==
    IsSome(client) => (Unwrap(client).redirect = "none" <=> args.redirects)

\* C2: with basic and bearer both given, the Request carries exactly one
\* Authorization value, the Bearer one.
C2_BearerIsTheOnlyAuthorization ==
    (IsSome(req) /\ IsSome(args.basic) /\ IsSome(args.bearer))
        => /\ AUTHORIZATION \in DOMAIN Unwrap(req).headers
           /\ Unwrap(req).headers[AUTHORIZATION] = <<BearerValue(Unwrap(args.bearer))>>

\* C3: with pretty_print and no download path, a body that is no JSON is
\* printed as it is and the run succeeds.
C3_NonJsonFallsBackToRaw ==
    (pc = "done" /\ IsSome(resp) /\ args.pretty_print /\ ~IsSome(args.download)
        /\ ~ParseJson(Unwrap(resp).body).ok)
        => /\ exit_code = 0
           /\ err = "none"
           /\ \E i \in 1..Len(stdout) :
                 stdout[i].kind = "raw" /\ stdout[i].data = Unwrap(resp).body

-----------------------------------------------------------------------------
(* Header claims.                                                          *)

IsInline(e) == ~StartsWith(e, "@")

\* the header list of the command line, empty when no -H is given
HeaderList == IF IsSome(args.headers) THEN Unwrap(args.headers) ELSE <<>>

\* the header assembly was reached: the client was built and the URL parsed
HeadersReached == pc \notin {"build_client", "build_request"} /\ Len(trace) >= 2

\* the names that a later step of build_request sets as well
SetLater(name) ==
    \/ name = COOKIE /\ IsSome(args.cookies)
    \/ name = AUTHORIZATION /\ (IsSome(args.basic) \/ IsSome(args.bearer))
    \/ name = CONTENT_TYPE /\ IsSome(args.form)

\* C4 as stated, for an entry whose text before the first '=' is a valid
\* header name: with at least one '=' it is accepted and split at the first
\* '='; only an entry without '=' is MalformedHeader.
C4_SplitOnFirstEquals ==
    (HeadersReached /\ Len(HeaderList) = 1 /\ IsInline(HeaderList[1])
        /\ HeaderNameFromStr(BeforeFirst(HeaderList[1] \o <<"=">>, "=")).ok)
        => LET e == HeaderList[1]
           IN IF CountChar(e, "=") = 0
              THEN err = "MalformedHeader"
              ELSE /\ err \notin HeaderErrors
                   /\ IsSome(req) =>
                        LET name == ToLower(BeforeFirst(e, "="))
                        IN /\ name \in DOMAIN Unwrap(req).headers
                           /\ SetLater(name)
                                \/ Unwrap(req).headers[name] = <<AfterFirst(e, "=")>>

\* C4 amended: an inline entry is accepted only with exactly one '=' and a
\* valid name before it (key = the text before the '=', value = the text
\* after it); an entry with no '=' or with more than one is MalformedHeader.
C4_ExactlyOneEquals ==
    /\ IsSome(req) =>
          \A i \in 1..Len(HeaderList) :
             IsInline(HeaderList[i]) =>
                /\ CountChar(HeaderList[i], "=") = 1
                /\ HeaderNameFromStr(BeforeFirst(HeaderList[i], "=")).ok
    /\ (HeadersReached /\ Len(HeaderList) >= 1 /\ IsInline(HeaderList[1]))
          => LET e == HeaderList[1]
             IN IF CountChar(e, "=") # 1
                THEN err = "MalformedHeader"
                ELSE /\ (\A j \in 2..Len(HeaderList) :
                            IsInline(HeaderList[j]) => CountChar(HeaderList[j], "=") = 1)
                         => err # "MalformedHeader"
                     /\ (Len(BeforeFirst(e, "=")) > 0) => err \notin HeaderErrors \/ Len(HeaderList) > 1
                     /\ (IsSome(req) /\ Len(HeaderList) = 1) =>
                          LET name == ToLower(BeforeFirst(e, "="))
                          IN /\ name \in DOMAIN Unwrap(req).headers
                             /\ SetLater(name)
                                  \/ Unwrap(req).headers[name] = <<AfterFirst(e, "=")>>

\* C4 witness: a run with one inline entry that has a name and two '=' has
\* ended in MalformedHeader.
C4_Witness ==
    /\ pc = "done"
    /\ Len(HeaderList) = 1
    /\ IsInline(HeaderList[1])
    /\ CountChar(HeaderList[1], "=") = 2
    /\ Len(BeforeFirst(HeaderList[1], "=")) > 0
    /\ err = "MalformedHeader"

\* C5: a basic value is split at its first colon only (the password is all
\* the text after it); a value without a colon is MalformedAuth and no
\* Request is built.
C5_PasswordIsAllAfterFirstColon ==
    IsSome(args.basic) =>
        LET basic == Unwrap(args.basic)
        IN IF CountChar(basic, ":") = 0
           THEN /\ req = None
                /\ (Returned /\ Len(trace) >= 1 /\ trace[Len(trace)] = "basic")
                      => err = "MalformedAuth"
           ELSE IsSome(req) =>
                   /\ AUTHORIZATION \in DOMAIN Unwrap(req).headers
                   /\ \E i \in 1..Len(Unwrap(req).headers[AUTHORIZATION]) :
                         Unwrap(req).headers[AUTHORIZATION][i]
                            = BasicValue(BeforeFirst(basic, ":"), AfterFirst(basic, ":"))

\* the key/value pairs of one header source: an inline entry cut at its
\* first '=', or the members of a header file in the order of the object
SourcePairs(e) ==
    IF IsInline(e)
    THEN <<[k |-> BeforeFirst(e, "="), v |-> AfterFirst(e, "=")]>>
    ELSE LET members == KnownJson[Files[SplitOff1(e)]].s
         IN [i \in 1..Len(members) |-> [k |-> members[i].k, v |-> members[i].v.s]]

\* the pairs of the sources of a list, from the i-th source on, in order
RECURSIVE ListPairs(_, _)
ListPairs(l, i) ==
    IF i > Len(l) THEN <<>> ELSE SourcePairs(l[i]) \o ListPairs(l, i + 1)

\* C6 as stated: the Request holds, under each key, the value of the last
\* source entry with that very key (keys compared case-sensitively).
C6_LastWinsCaseSensitive ==
    IsSome(req) =>
        LET pairs == ListPairs(HeaderList, 1)
            h == Unwrap(req).headers
        IN \A i \in 1..Len(pairs) :
              LET same == {j \in 1..Len(pairs) : pairs[j].k = pairs[i].k}
                  last == CHOOSE j \in same : \A m \in same : m <= j
                  name == ToLower(pairs[i].k)
              IN SetLater(name) \/ (name \in DOMAIN h /\ h[name] = <<pairs[last].v>>)

\* C6 amended: the Request holds, under each key folded to lower case, the
\* value of the last source entry whose key folds to it, and no other name
\* than those and the ones later steps set.
C6_LastWinsCaseInsensitive ==
    IsSome(req) =>
        LET pairs == ListPairs(HeaderList, 1)
            h == Unwrap(req).headers
        IN /\ \A i \in 1..Len(pairs) :
                 LET same == {j \in 1..Len(pairs) :
                                 ToLower(pairs[j].k) = ToLower(pairs[i].k)}
                     last == CHOOSE j \in same : \A m \in same : m <= j
                     name == ToLower(pairs[i].k)
                 IN SetLater(name) \/ (name \in DOMAIN h /\ h[name] = <<pairs[last].v>>)
           /\ \A name \in DOMAIN h :
                 SetLater(name) \/ \E i \in 1..Len(pairs) : name = ToLower(pairs[i].k)

\* C6 witness: a Request built from an inline entry and a header file that
\* set keys differing only in case.
C6_Witness ==
    /\ IsSome(req)
    /\ Len(HeaderList) = 2
    /\ \E i, j \in 1..2 : IsInline(HeaderList[i]) /\ ~IsInline(HeaderList[j])
    /\ LET pairs == ListPairs(HeaderList, 1)
       IN \E i, j \in 1..Len(pairs) :
             /\ i < j
             /\ pairs[i].k # pairs[j].k
             /\ ToLower(pairs[i].k) = ToLower(pairs[j].k)
             /\ pairs[i].v # pairs[j].v

-----------------------------------------------------------------------------
(* Claims about run.                                                       *)

\* C7: in debug mode, once the request is built, run prints the dump of the
\* request and nothing else, never sends, and the process exits 0; no run
\* sends more than once.
C7_DebugNeverSends ==
    /\ sent <= 1
    /\ (args.debug /\ IsSome(req)) =>
          /\ sent = 0
          /\ resp = None
          /\ Returned =>
                /\ stdout = <<Line("request",
                                [version |-> "HTTP/1.1", url |-> Unwrap(req).url,
                                 method |-> Unwrap(req).method,
                                 headers |-> Unwrap(req).headers,
                                 timeout |-> args.timeout_seconds])>>
                /\ stderr = <<>>
                /\ err = "none"
          /\ pc = "done" => exit_code = 0

\* C7 witness: a debug run with a timeout has exited.
C7_Witness ==
    /\ pc = "done"
    /\ args.debug
    /\ IsSome(req)
    /\ IsSome(args.timeout_seconds)
    /\ exit_code = 0

\* the lines a verbose run prints before the body is rendered
VerboseLines ==
    IF args.verbose
    THEN <<Line("request", DumpOf(Unwrap(req))), Line("response", Unwrap(resp).status)>>
    ELSE <<>>

\* the body of a response was rendered, or rendering failed
Rendered == Returned /\ IsSome(resp)

\* C8 as stated: with a download path that can be created, the body is
\* written to the file and nothing but the verbose lines is printed.
C8_OnlyVerboseLinesPrinted ==
    (Rendered /\ IsSome(args.download) /\ Unwrap(args.download) \in Creatable)
        => /\ written = (Unwrap(args.download) :> Unwrap(resp).body)
           /\ stdout = VerboseLines

\* C8 amended: with a download path, the body is written verbatim to the
\* file and never printed: besides the verbose lines only the fixed line
\* "downloading file..." is printed, pretty_print or not; when the file
\* cannot be created the run fails and prints no more than the verbose lines.
C8_DownloadPrintsNoBody ==
    (Rendered /\ IsSome(args.download))
        => /\ \A i \in 1..Len(stdout) : stdout[i].kind \notin {"pretty", "raw"}
           /\ IF Unwrap(args.download) \in Creatable
              THEN /\ written = (Unwrap(args.download) :> Unwrap(resp).body)
                   /\ stdout = VerboseLines
                                 \o <<Line("downloading", <<"downloading file...">>)>>
                   /\ err = "none"
              ELSE /\ written = <<>>
                   /\ stdout = VerboseLines
                   /\ err = "IOError"

\* C8 witness: a verbose run with pretty_print and a download path has
\* written the file.
C8_Witness ==
    /\ pc = "done"
    /\ IsSome(args.download)
    /\ args.pretty_print
    /\ args.verbose
    /\ IsSome(resp)
    /\ written # <<>>

\* the data value names a file that cannot be opened
DataFileMissing ==
    /\ IsSome(args.data)
    /\ StartsWith(Unwrap(args.data), "@")
    /\ SplitOff1(Unwrap(args.data)) \notin DOMAIN Files

\* the errors of the steps of run that come before the data step
BeforeDataErrors ==
    BeforeHeadersErrors \cup HeaderErrors
        \cup {"CookieFileError", "InvalidHeaderValue", "MalformedAuth"}

\* the steps in trace
StepsRun == {trace[i] : i \in 1..Len(trace)}

\* C9: a data value "@path" whose file cannot be opened never yields a
\* Request and nothing is sent; the run fails with FileNotFound, unless a
\* step before the data step has failed and the data step was never run.
C9_MissingDataFileFails ==
    DataFileMissing =>
        /\ req = None
        /\ sent = 0
        /\ pc \notin {"dump", "execute", "status", "render"}
        /\ Returned =>
              \/ err = "FileNotFound" /\ trace[Len(trace)] = "data"
              \/ err \in BeforeDataErrors /\ "data" \notin StepsRun
        /\ pc = "done" => exit_code = 1

\* C9 witness: a run has exited 1 with FileNotFound.
C9_Witness ==
    /\ DataFileMissing
    /\ pc = "done"
    /\ err = "FileNotFound"
    /\ exit_code = 1

\* the i-th header source is a header file whose object has a member that
\* is no text
HasNonTextMember(e) ==
    /\ ~IsInline(e)
    /\ SplitOff1(e) \in DOMAIN Files
    /\ ParseJson(Files[SplitOff1(e)]).ok
    /\ LET j == ParseJson(Files[SplitOff1(e)]).v
       IN j.t = "obj" /\ \E i \in 1..Len(j.s) : j.s[i].v.t # "str"

\* every member before the first member of the file that is no text has a
\* valid header name
NonTextMemberComesFirst(e) ==
    LET members == ParseJson(Files[SplitOff1(e)]).v.s
        first == CHOOSE i \in 1..Len(members) :
                    members[i].v.t # "str" /\ \A j \in 1..(i - 1) : members[j].v.t = "str"
    IN \A j \in 1..(first - 1) : HeaderNameFromStr(members[j].k).ok

\* the sources before the i-th are all accepted by add_headers
SourcesBeforeAccepted(i) == add_headers(Some(SubSeq(HeaderList, 1, i - 1))).ok

\* C10: a header file with a member that is no text never yields a Request
\* (so no header carries the member as a text) and nothing is sent; the run
\* fails in or before the header assembly and no later step runs; it fails
\* with BadHeaderValue when the header assembly reaches the member, that is
\* when the sources before the file, and the members before the member, are
\* accepted.
C10_NonTextHeaderValueFails ==
    \A i \in 1..Len(HeaderList) :
        HasNonTextMember(HeaderList[i]) =>
            /\ req = None
            /\ sent = 0
            /\ Returned =>
                  /\ err \in BeforeHeadersErrors \cup HeaderErrors
                  /\ StepsRun \subseteq {"url", "headers"}
                  /\ (SourcesBeforeAccepted(i) /\ NonTextMemberComesFirst(HeaderList[i])
                        /\ err \notin BeforeHeadersErrors)
                        => err = "BadHeaderValue"
            /\ pc = "done" => exit_code = 1

\* C10 witness: a run whose header file has a text member and then a number
\* has exited 1 with BadHeaderValue.
C10_Witness ==
    /\ pc = "done"
    /\ Len(HeaderList) = 2
    /\ HeaderList[2] = <<"@">> \o P_g
    /\ err = "BadHeaderValue"
    /\ exit_code = 1

-----------------------------------------------------------------------------
(* C11: form beside data.                                                  *)

\* the parts the form text of the command line stands for
FormPartsOf(a) ==
    LET object == AsObject(ParseJson(Unwrap(a.form)).v)
    IN IF IsSome(object) THEN FormParts(Unwrap(object), 1) ELSE <<>>

\* data and form are both given and both steps have run without error
DataAndFormApplied ==
    /\ IsSome(args.data)
    /\ IsSome(args.form)
    /\ IsSome(req)
    /\ "data" \in StepsRun
    /\ "form" \in StepsRun

\* C11: when data and form have both been applied without error, the
\* payload of the built Request is the multipart payload of the form and
\* nothing of the data payload is left in it, whether the data value is a
\* literal or names a file.
C11_FormReplacesData ==
    DataAndFormApplied =>
        /\ IsSome(Unwrap(req).body)
        /\ Unwrap(Unwrap(req).body).kind = "multipart"
        /\ Unwrap(Unwrap(req).body).data = FormPartsOf(args)

\* C11 witness: a Request is built from a data value that names a file and a
\* form with parts, and its payload is the form.
C11_Witness ==
    /\ DataAndFormApplied
    /\ StartsWith(Unwrap(args.data), "@")
    /\ FormPartsOf(args) # <<>>
    /\ Unwrap(Unwrap(req).body).kind = "multipart"

-----------------------------------------------------------------------------
(* C12: a status that is no success.                                       *)

\* what rendering a body under a configuration gives, whatever the status:
\* the lines printed, the files written and the error, by the branch the
\* configuration selects (download, pretty-print or raw)
RenderingOf(a, body) ==
    IF IsSome(a.download)
    THEN IF Unwrap(a.download) \in Creatable
         THEN [out |-> <<Line("downloading", <<"downloading file...">>)>>,
               written |-> (Unwrap(a.download) :> body), err |-> "none"]
         ELSE [out |-> <<>>, written |-> <<>>, err |-> "IOError"]
    ELSE IF a.pretty_print
    THEN IF ParseJson(body).ok
         THEN [out |-> <<Line("pretty", ToStringPretty(ParseJson(body).v))>>,
               written |-> <<>>, err |-> "none"]
         ELSE [out |-> <<>>, written |-> <<>>, err |-> "JsonError"]
    ELSE [out |-> <<Line("raw", body)>>, written |-> <<>>, err |-> "none"]

\* the lines of one kind on the diagnostic stream
StderrLines(kind) == {i \in 1..Len(stderr) : stderr[i].kind = kind}

\* C12: a response whose status is no success is no error: once the status
\* is reported there is exactly one diagnostic line for it and no error, and
\* rendering gives what the configuration and the body give for any status
\* (as it does for a 2xx response, which leaves no diagnostic line); the
\* exit code follows rendering alone.
C12_NonSuccessIsRenderedLikeSuccess ==
    IsSome(resp) =>
        LET status == Unwrap(resp).status
            body == Unwrap(resp).body
            rendering == RenderingOf(args, body)
        IN /\ pc = "render" =>
                 /\ err = "none"
                 /\ stderr = IF status \in 200..299 THEN <<>>
                             ELSE <<Line("status", status)>>
           /\ Returned =>
                 /\ Cardinality(StderrLines("status"))
                        = IF status \in 200..299 THEN 0 ELSE 1
                 /\ stdout = VerboseLines \o rendering.out
                 /\ written = rendering.written
                 /\ err = rendering.err
           /\ pc = "done" =>
                 /\ exit_code = IF rendering.err = "none" THEN 0 ELSE 1
                 /\ Cardinality(StderrLines("error"))
                        = IF rendering.err = "none" THEN 0 ELSE 1

\* C12 witness: a 404 response has been printed raw and the run has exited 0
\* with the one diagnostic line.
C12_Witness ==
    /\ pc = "done"
    /\ IsSome(resp)
    /\ Unwrap(resp).status = 404
    /\ stderr = <<Line("status", 404)>>
    /\ stdout = <<Line("raw", Unwrap(resp).body)>>
    /\ exit_code = 0

-----------------------------------------------------------------------------
(* C13: the method token.                                                  *)

\* the names of the six methods
MethodText ==
    [GET |-> <<"G", "E", "T">>, HEAD |-> <<"H", "E", "A", "D">>,
     POST |-> <<"P", "O", "S", "T">>, PUT |-> <<"P", "U", "T">>,
     PATCH |-> <<"P", "A", "T", "C", "H">>,
     DELETE |-> <<"D", "E", "L", "E", "T", "E">>]

\* the methods a token names when case is ignored
NamedBy(token) == {m \in Methods : ToLower(MethodText[m]) = ToLower(token)}

\* only the method was given on the command line
OnlyMethodGiven == cli = [DefaultCli EXCEPT !.method = cli.method]

\* the method the token of the command line names, or GET
Resolved ==
    IF NamedBy(cli.method) = {} THEN "GET"
    ELSE CHOOSE m \in NamedBy(cli.method) : TRUE

\* C13: the token resolves to the method it names when case is ignored and
\* to GET when it names none; the token never causes an error (a run that
\* gives only a method ends without one unless the transport fails), and
\* the Request, once built, uses exactly the resolved method, which stays
\* the method of the Request for the rest of the run.
C13_MethodResolvedIgnoringCase ==
    /\ pc = "build_client" => args.method = Resolved
    /\ pc = "dump" => Unwrap(req).method = Resolved
    /\ IsSome(req) => Unwrap(req).method = args.method
    /\ (OnlyMethodGiven /\ pc \notin {"build_client", "build_request"})
          => IsSome(req)
    /\ (OnlyMethodGiven /\ Returned) => err \in {"none", "TransportError"}

\* C13 witness: a Request is built with GET from a token that names no
\* method, and the run has exited 0.
C13_Witness ==
    /\ cli.method = <<"P", "U", "R">>
    /\ IsSome(req)
    /\ Unwrap(req).method = "GET"
    /\ pc = "done"
    /\ exit_code = 0

-----------------------------------------------------------------------------
(* C14: exit codes and fail-fast.                                          *)

\* the errors of build_client and build_request, of the transport, and of
\* rendering
BuildErrors ==
    BeforeDataErrors \cup {"FileNotFound", "BadForm"}
RenderErrors == {"IOError", "JsonError"}

\* the lines of stdout that render a response
RenderLines ==
    {i \in 1..Len(stdout) : stdout[i].kind \in {"downloading", "pretty", "raw"}}
ResponseLines == {i \in 1..Len(stdout) : stdout[i].kind = "response"}

\* C14: the process exits 0 exactly when run ended without an error and
\* exits 1 with the error as the last diagnostic line otherwise; an error
\* ends the run at once: after an error of the build nothing is sent or
\* printed, after an error of the transport no response is handled or
\* rendered, after an error of rendering nothing is rendered or written;
\* the request is sent at most once.
C14_ExitCodeAndFailFast ==
    /\ exit_code \in {-1, 0, 1}
    /\ exit_code # -1 <=> pc = "done"
    /\ pc = "done" =>
          /\ exit_code = 0 <=> err = "none"
          /\ exit_code = 1 =>
                /\ stderr # <<>>
                /\ stderr[Len(stderr)] = Line("error", <<err>>)
                /\ Cardinality(StderrLines("error")) = 1
          /\ exit_code = 0 => StderrLines("error") = {}
    /\ err # "none" =>
          /\ Returned
          /\ err \in BuildErrors \cup {"TransportError"} \cup RenderErrors
          /\ err \in BuildErrors =>
                sent = 0 /\ req = None /\ resp = None /\ stdout = <<>> /\ written = <<>>
          /\ err = "TransportError" =>
                /\ sent = 1 /\ resp = None /\ written = <<>>
                /\ RenderLines = {} /\ ResponseLines = {}
          /\ err \in RenderErrors =>
                sent = 1 /\ RenderLines = {} /\ written = <<>>
    /\ sent <= 1
    /\ (err = "none" /\ pc = "done" /\ ~args.debug) =>
          sent = 1 /\ Cardinality(RenderLines) = 1

\* C14 witness: a run whose request was sent once has failed in the
\* transport and exited 1 with the error on the diagnostic stream.
C14_Witness ==
    /\ pc = "done"
    /\ exit_code = 1
    /\ err = "TransportError"
    /\ sent = 1
    /\ stderr = <<Line("error", <<"TransportError">>)>>

-----------------------------------------------------------------------------
(* C19: several faults at once.                                            *)

\* the steps of build_request in the order of the code
StepOrder ==
    <<"url", "headers", "cookies", "basic", "bearer", "timeout", "data", "form",
      "build">>
StepIndex(step) == CHOOSE i \in 1..Len(StepOrder) : StepOrder[i] = step

\* the entries of the header list that fail when taken alone
FaultyEntries == {i \in 1..Len(HeaderList) : ~add_headers(Some(<<HeaderList[i]>>)).ok}
FirstFaultyEntry == CHOOSE i \in FaultyEntries : \A j \in FaultyEntries : i <= j

\* the faults of the command line: the step that fails and its error, in the
\* order of the claim, with client construction as step "client"
Faults ==
    (IF IsSome(args.proxy) /\ ~ProxyAll(Unwrap(args.proxy)).ok
     THEN <<[step |-> "client", err |-> "InvalidProxy"]>> ELSE <<>>)
    \o (IF ~UrlParse(args.url).ok
        THEN <<[step |-> "url", err |-> "InvalidURL"]>> ELSE <<>>)
    \o (IF FaultyEntries # {}
        THEN <<[step |-> "headers",
                err |-> add_headers(Some(<<HeaderList[FirstFaultyEntry]>>)).err]>>
        ELSE <<>>)
    \o (IF IsSome(args.cookies) /\ ~add_cookies(Unwrap(args.cookies)).ok
        THEN <<[step |-> "cookies", err |-> add_cookies(Unwrap(args.cookies)).err]>>
        ELSE <<>>)
    \o (IF IsSome(args.basic) /\ CountChar(Unwrap(args.basic), ":") = 0
        THEN <<[step |-> "basic", err |-> "MalformedAuth"]>> ELSE <<>>)
    \o (IF DataFileMissing
        THEN <<[step |-> "data", err |-> "FileNotFound"]>> ELSE <<>>)
    \o (IF IsSome(args.form) /\ ~ParseJson(Unwrap(args.form)).ok
        THEN <<[step |-> "form", err |-> "BadForm"]>> ELSE <<>>)

\* C19: when the command line has faults, the error of the run is the error
\* of the first of them in the order client construction, URL, headers (the
\* first entry that fails), cookies, basic auth, data file, form; the steps
\* of build_request that ran end with the failing one (none ran when the
\* client failed), no Request exists and nothing is sent.
C19_EarliestFaultIsReported ==
    (Returned /\ Faults # <<>>) =>
        LET first == Faults[1]
        IN /\ err = first.err
           /\ req = None
           /\ sent = 0
           /\ IF first.step = "client"
              THEN trace = <<>> /\ client = None
              ELSE /\ trace # <<>>
                   /\ trace[Len(trace)] = first.step
                   /\ \A i \in 1..Len(trace) :
                         StepIndex(trace[i]) <= StepIndex(first.step)
                   /\ \A i \in 1..(Len(trace) - 1) :
                         StepIndex(trace[i]) < StepIndex(trace[i + 1])

\* C19 witness: a run with three faults (URL, cookies file, form) has ended
\* with the error of the URL and no later step.
C19_Witness ==
    /\ pc = "done"
    /\ Len(Faults) = 3
    /\ Faults[1].step = "url"
    /\ err = "InvalidURL"
    /\ trace = <<"url">>

-----------------------------------------------------------------------------
(* The archive crate: the timemap the archive serves.                      *)

\* at most this many snapshots of the page are archived
MaxSnapshots == 3

\* the k-th snapshot in time: its URL carries its timestamp, and its
\* datetime is later the larger k is
Stamp(k) == ToString(20250127 + k)
SnapshotUrl(k) == <<"http://archive.md/", Stamp(k), "/">> \o U_ok
SnapshotDatetime(k) ==
    <<"Tue", ", ", ToString(27 + k), " ", "Jan", " ", "2025", " ", "21:30:48", " ", "GMT">>

\* the members of a set of numbers, smallest first
RECURSIVE Ascending(_)
Ascending(S) ==
    IF S = {} THEN <<>>
    ELSE LET m == CHOOSE x \in S : \A y \in S : x <= y
         IN <<m>> \o Ascending(S \ {m})

\* what the archive may hold of a page: any of the snapshots, oldest first
SnapshotLists == {Ascending(S) : S \in SUBSET (1..MaxSnapshots)}

\* the rel value of the i-th of n snapshots (RFC 7089: the oldest memento is
\* "first", the newest is "last", the only one is both)
RelOf(i, n) ==
    (IF i = 1 THEN <<"first", " ">> ELSE <<>>)
        \o (IF i = n THEN <<"last", " ">> ELSE <<>>) \o <<"memento">>

\* one entry of a timemap in link format
LinkEntry(url, rel) == <<"<">> \o url \o <<">", "; ", "rel=", "\"">> \o rel \o <<"\"">>
MementoEntry(url, rel, datetime) ==
    LinkEntry(url, rel) \o <<"; ", "datetime=", "\"">> \o datetime \o <<"\"">>

\* the entries joined with ",\n"
RECURSIVE JoinEntries(_, _)
JoinEntries(entries, i) ==
    IF i > Len(entries) THEN <<>>
    ELSE entries[i] \o (IF i < Len(entries) THEN <<",\n">> ELSE <<>>)
            \o JoinEntries(entries, i + 1)

\* the timemap of a page with the snapshots snaps; with none the body is
\* empty
TimemapText(snaps) ==
    IF snaps = <<>> THEN <<>>
    ELSE JoinEntries(
            <<LinkEntry(U_ok, <<"original">>),
              LinkEntry(<<"http://archive.md/timegate/">> \o U_ok, <<"timegate">>)>>
            \o [i \in 1..Len(snaps) |->
                  MementoEntry(SnapshotUrl(snaps[i]), RelOf(i, Len(snaps)),
                               SnapshotDatetime(snaps[i]))]
            \o <<LinkEntry(<<"http://archive.md/timemap/">> \o U_ok, <<"self">>)
                    \o <<"; ", "type=", "\"", "application/link-format", "\"">>>>, 1)

-----------------------------------------------------------------------------
(* The archive crate: parse and run.                                       *)

\* str::trim_matches: the text without the leading and trailing characters
\* of chars
RECURSIVE TrimStart(_, _)
TrimStart(s, chars) ==
    IF s # <<>> /\ s[1] \in chars THEN TrimStart(Tail(s), chars) ELSE s
RECURSIVE TrimEnd(_, _)
TrimEnd(s, chars) ==
    IF s # <<>> /\ s[Len(s)] \in chars
    THEN TrimEnd(SubSeq(s, 1, Len(s) - 1), chars) ELSE s
TrimMatches(s, chars) == TrimEnd(TrimStart(s, chars), chars)

\* str::strip_prefix
StripPrefix(s, prefix) ==
    IF s # <<>> /\ s[1] = prefix THEN Some(Tail(s)) ELSE None

\* str::contains
Contains(s, word) == \E i \in 1..Len(s) : s[i] = word

\* Timemap::default()
DefaultTimemap ==
    [original |-> None, timegate |-> None, first |-> None, last |-> None,
     mementos |-> <<>>]

\* lines 126-134: the value of the last part that has the prefix, without
\* its quotes, from the i-th part on
RECURSIVE PartValue(_, _, _, _)
PartValue(parts, prefix, i, found) ==
    IF i > Len(parts) THEN found
    ELSE LET val == StripPrefix(parts[i], prefix)
         IN PartValue(parts, prefix, i + 1,
                      IF IsSome(val) THEN Some(TrimMatches(Unwrap(val), {"\""}))
                      ELSE found)

\* lines 135-146: the arms of the match on a rel value, the first that
\* applies
RelArm(tm, rel, url, datetime) ==
    IF rel = <<"original">> THEN [tm EXCEPT !.original = Some(url)]
    ELSE IF rel = <<"timegate">> THEN [tm EXCEPT !.timegate = Some(url)]
    ELSE IF Contains(rel, "first") THEN [tm EXCEPT !.first = Some(url)]
    ELSE IF Contains(rel, "last") THEN [tm EXCEPT !.last = Some(url)]
    ELSE IF rel = <<"memento">>
    THEN IF IsSome(datetime)
         THEN [tm EXCEPT !.mementos =
                            Append(@, [url |-> url, datetime |-> Unwrap(datetime)])]
         ELSE tm
    ELSE tm

\* lines 124-146: one hit of the timemap
ParseHit(tm, hit) ==
    LET parts == Split(hit, "; ")
        url == TrimMatches(parts[1], {"<", ">"})
        rel == PartValue(parts, "rel=", 1, None)
        datetime == PartValue(parts, "datetime=", 1, None)
    IN IF IsSome(rel) THEN RelArm(tm, Unwrap(rel), url, datetime) ELSE tm

\* lines 123-147: the loop over the hits, from the i-th on
RECURSIVE ParseHits(_, _, _)
ParseHits(tm, hits, i) ==
    IF i > Len(hits) THEN tm ELSE ParseHits(ParseHit(tm, hits[i]), hits, i + 1)

\* parse, lines 117-149
parse(text) ==
    IF text = <<>> THEN DefaultTimemap
    ELSE ParseHits(DefaultTimemap, Split(text, ",\n"), 1)

\* run, lines 40-59: the match on (oldest, all); every arm that goes on
\* yields first but the arm of oldest, which yields last
Selected(a, tm) ==
    IF a.oldest THEN tm.last
    ELSE IF a.all THEN tm.first
    ELSE tm.first

\* print_results, lines 83-89
print_results(result) ==
    IF IsSome(result) THEN Line("println", Unwrap(result))
    ELSE Line("println", <<"no results">>)

\* the command lines of archive: the page, and any combination of flags
ArchiveArgs ==
    [url : {U_ok}, oldest : BOOLEAN, all : BOOLEAN, print : BOOLEAN,
     verbose : BOOLEAN]

\* the state after Args::parse in main of archive
InitArchive ==
    /\ args \in ArchiveArgs
    /\ archived \in SnapshotLists
    /\ pc = "request"
    /\ err = "none"
    /\ stdout = <<>>
    /\ stderr = <<>>
    /\ exit_code = -1
    /\ data = None
    /\ timemap = None
    /\ result_url = None
    /\ clipboard = None
    /\ RqAtRest
    /\ SlugAtRest

\* run, lines 37-38: the timemap of the page is requested; the transport
\* fails or the body arrives
Request ==
    /\ pc = "request"
    /\ \/ /\ err' = "TransportError"
          /\ pc' = "exit"
          /\ data' = data
       \/ /\ data' = Some(TimemapText(archived))
          /\ pc' = "parse"
          /\ err' = err
    /\ UNCHANGED <<args, stdout, stderr, exit_code, archived, timemap, result_url,
                   clipboard>>
    /\ UNCHANGED <<rqVars, slugVars>>

\* run, line 39
Parse ==
    /\ pc = "parse"
    /\ timemap' = Some(parse(Unwrap(data)))
    /\ pc' = "select"
    /\ UNCHANGED <<args, err, stdout, stderr, exit_code, archived, data, result_url,
                   clipboard>>
    /\ UNCHANGED <<rqVars, slugVars>>

\* run, line 40-45: the arm of all is taken and it prints
PrintsAll(a) == ~a.oldest /\ a.all /\ a.print

\* the lines "url: datetime" of the mementos, from the i-th on (lines 48-51)
RECURSIVE MementoLines(_, _)
MementoLines(mementos, i) ==
    IF i > Len(mementos) THEN <<>>
    ELSE <<print_results(Some(mementos[i].url \o <<": ">> \o mementos[i].datetime))>>
            \o MementoLines(mementos, i + 1)

\* run, lines 45-54: all with print prints first, the mementos and last, and
\* returns
PrintAll ==
    /\ pc = "select"
    /\ PrintsAll(args)
    /\ LET tm == Unwrap(timemap)
       IN stdout' = stdout \o <<print_results(tm.first)>>
                       \o MementoLines(tm.mementos, 1) \o <<print_results(tm.last)>>
    /\ pc' = "exit"
    /\ UNCHANGED <<args, err, stderr, exit_code, archiveVars>>
    /\ UNCHANGED <<rqVars, slugVars>>

\* run, lines 40-61: the selected result is printed
PrintResult ==
    /\ pc = "select"
    /\ ~PrintsAll(args)
    /\ args.print
    /\ result_url' = Some(Selected(args, Unwrap(timemap)))
    /\ stdout' = Append(stdout, print_results(Selected(args, Unwrap(timemap))))
    /\ pc' = "exit"
    /\ UNCHANGED <<args, err, stderr, exit_code, archived, data, timemap, clipboard>>
    /\ UNCHANGED <<rqVars, slugVars>>

\* run, lines 40-63, and copy_results, lines 91-100: the selected result is
\* copied to the clipboard, when there is a clipboard
CopyResult ==
    /\ pc = "select"
    /\ ~args.print
    /\ result_url' = Some(Selected(args, Unwrap(timemap)))
    /\ \/ /\ err' = "ClipboardError"
          /\ UNCHANGED <<stdout, clipboard>>
       \/ /\ err' = err
          /\ LET r == Selected(args, Unwrap(timemap))
             IN IF IsSome(r)
                THEN /\ clipboard' = Some(Unwrap(r))
                     /\ stdout' = Append(stdout, Line("println", <<"link copied to clipboard">>))
                ELSE /\ clipboard' = clipboard
                     /\ stdout' = Append(stdout, Line("println", <<"no results">>))
    /\ pc' = "exit"
    /\ UNCHANGED <<args, stderr, exit_code, archived, data, timemap>>
    /\ UNCHANGED <<rqVars, slugVars>>

\* the steps of archive; its main (main.rs, lines 6-9) ends as the main of
\* rq does
NextArchive ==
    \/ Request
    \/ Parse
    \/ PrintAll
    \/ PrintResult
    \/ CopyResult
    \/ Exit

SpecArchive == InitArchive /\ [][NextArchive]_vars

-----------------------------------------------------------------------------
(* C15, C20: what archive selects.                                         *)

\* the URLs of the oldest and of the newest snapshot the archive holds
OldestUrl == SnapshotUrl(archived[1])
NewestUrl == SnapshotUrl(archived[Len(archived)])

\* run has selected a result
HasSelected == result_url # None

\* C15 as stated: for a timemap with at least one snapshot, run with the
\* oldest flag selects the snapshot with the earliest datetime, and run
\* without oldest and without all selects the one with the latest datetime.
C15_OldestSelectsEarliest ==
    (HasSelected /\ archived # <<>>) =>
        /\ args.oldest => Unwrap(result_url) = Some(OldestUrl)
        /\ (~args.oldest /\ ~args.all) => Unwrap(result_url) = Some(NewestUrl)

\* C20 as stated: for a timemap with exactly one snapshot, parse sets first
\* and last to the URL of that snapshot, and run reports that URL with and
\* without the oldest flag.
C20_SingleSnapshotIsFirstAndLast ==
    (Len(archived) = 1 /\ IsSome(timemap)) =>
        /\ Unwrap(timemap).first = Some(OldestUrl)
        /\ Unwrap(timemap).last = Some(OldestUrl)
        /\ HasSelected => Unwrap(result_url) = Some(OldestUrl)
        /\ (HasSelected /\ args.print /\ Returned)
              => stdout = <<Line("println", OldestUrl)>>

-----------------------------------------------------------------------------
(* The slug crate: simple_slug and slugginate.                             *)

\* longest name drawn over NameAlphabet
MaxNameLen == 3
\* at most this many entries in one directory
MaxEntries == 2

\* char::is_alphanumeric on the characters of the model
IsAlphanumeric(c) ==
    \/ IsIn(c, Uppers)
    \/ IsIn(c, Lowers)
    \/ c \in {"0", "1", "2", "3", "4", "5", "6", "7", "8", "9"}

\* str::trim
Trim(s) == TrimMatches(s, {" ", "\t", "\n"})

\* Option::unwrap_or
UnwrapOr(o, default) == IF IsSome(o) THEN Unwrap(o) ELSE default

\* lines 171-182 and 195-205: the loop that pushes the characters, from the
\* i-th on, with one sep for each run of spaces
RECURSIVE PushChars(_, _, _, _)
PushChars(chars, i, sep, in_sequence) ==
    IF i > Len(chars) THEN <<>>
    ELSE IF chars[i] = " "
    THEN (IF in_sequence THEN <<>> ELSE <<sep>>) \o PushChars(chars, i + 1, sep, TRUE)
    ELSE <<chars[i]>> \o PushChars(chars, i + 1, sep, FALSE)

\* simple_slug, lines 167-184
simple_slug(input, separator) ==
    PushChars(Trim(input), 1, UnwrapOr(separator, "-"), FALSE)

\* slugginate, lines 186-207
slugginate(input, separator) ==
    LET sep == UnwrapOr(separator, "-")
        Kept(c) == IsAlphanumeric(c) \/ c = "." \/ c = sep \/ c = " "
        spaces_not_treated == SelectSeq(Trim(ToLower(input)), Kept)
    IN PushChars(spaces_not_treated, 1, sep, FALSE)

-----------------------------------------------------------------------------
(* The slug crate: the file system.                                        *)

\* Path::file_name, Path::parent and Path::with_file_name on a path, which
\* is the sequence of its names; an empty file name leaves the path of the
\* parent
FileName(p) == p[Len(p)]
Parent(p) == SubSeq(p, 1, Len(p) - 1)
WithFileName(p, file_name) ==
    IF file_name = <<>> THEN Parent(p) ELSE Append(Parent(p), file_name)

\* Path::is_file, Path::is_dir and Path::exists follow symbolic links: a
\* link whose target is missing ("link") is no file, no directory and does
\* not exist for them, though it is an entry of its directory; the names
\* "." and ".." are the directory and its parent
IsFile(f, p) == p \in DOMAIN f /\ f[p] = "file"
IsDir(f, p) == p \in DOMAIN f /\ f[p] = "dir"
PathExists(f, p) ==
    /\ p # <<>>
    /\ \/ FileName(p) \in {<<".">>, <<".", ".">>}
       \/ p \in DOMAIN f /\ f[p] # "link"

\* p is d or lies under d
IsUnder(p, d) == Len(p) >= Len(d) /\ SubSeq(p, 1, Len(d)) = d

\* fs::read_dir: the entries of a directory
Children(f, d) == {p \in DOMAIN f : Len(p) = Len(d) + 1 /\ Parent(p) = d}

\* the orders in which read_dir may yield the entries
RECURSIVE Orderings(_)
Orderings(S) ==
    IF S = {} THEN {<<>>}
    ELSE UNION {{<<x>> \o t : t \in Orderings(S \ {x})} : x \in S}

\* fs::rename fails when a directory is renamed onto an entry that is no
\* directory
RenameFails(f, from, to) == to \in DOMAIN f /\ f[from] = "dir"

\* fs::rename: the entry, with all that lies under it, moves to the new
\* path and replaces the entry that is there
Rename(f, from, to) ==
    LET kept == {p \in DOMAIN f : ~IsUnder(p, from) /\ ~IsUnder(p, to)}
        moved == {to \o SubSeq(p, Len(from) + 1, Len(p)) : p \in {q \in DOMAIN f : IsUnder(q, from)}}
    IN [p \in kept \cup moved |->
          IF p \in moved THEN f[from \o SubSeq(p, Len(to) + 1, Len(p))] ELSE f[p]]

-----------------------------------------------------------------------------
(* The slug crate: Slug, rename_entry, crawl_dir and run.                  *)

\* Slug::new, lines 73-83
SlugNew(a) ==
    [crawl |-> a.crawl, include_dirs |-> a.dirs, slug |-> a.slug,
     max_slug |-> a.all, include_hidden |-> a.hidden,
     ignore_conflicts |-> a.ignore, custom_separator |-> a.separator]

\* a variant of Rewrites that renames in a dry run as well
Rewrites_Always(s) == TRUE

\* rename_entry, line 141: the entry is renamed only when slug is set
Rewrites(s) == s.slug

\* what a call of rename_entry leaves: the file system, the error and the
\* lines logged
Outcome(f, e, lines) == [fs |-> f, err |-> e, lines |-> lines]

\* rename_entry, lines 115-148
rename_entry(s, f, p) ==
    LET name == FileName(p)
        slugged == IF s.max_slug THEN slugginate(name, s.custom_separator)
                   ELSE simple_slug(name, s.custom_separator)
        new_path == WithFileName(p, slugged)
        SLUGGED == Line("SLUGGED", [name |-> name, slug |-> slugged])
    IN IF StartsWith(name, ".") /\ ~s.include_hidden
       THEN Outcome(f, "none", <<Line("ignoring hidden entity", name)>>)
       ELSE IF slugged = name THEN Outcome(f, "none", <<>>)
       ELSE IF PathExists(f, new_path)
       THEN IF s.ignore_conflicts
            THEN Outcome(f, "none", <<Line("name conflict detected", slugged)>>)
            ELSE Outcome(f, "Conflict", <<>>)
       ELSE IF Rewrites(s)
       THEN IF RenameFails(f, p, new_path) THEN Outcome(f, "IOError", <<>>)
            ELSE Outcome(Rename(f, p, new_path), "none", <<SLUGGED>>)
       ELSE Outcome(f, "none", <<SLUGGED>>)

\* a call that is still to run
Task(op, p) == [op |-> op, path |-> p]

\* the state after a call that left outcome, with rest still to run: an
\* error ends the crawl, and the crawl is over when nothing is left
AfterCall(outcome, rest) ==
    /\ fs' = outcome.fs
    /\ log' = log \o outcome.lines
    /\ err' = outcome.err
    /\ pending' = IF outcome.err # "none" THEN <<>> ELSE rest
    /\ pc' = IF outcome.err # "none" \/ rest = <<>> THEN "exit" ELSE "crawl"

\* run, lines 151-163: all without slug is refused; a run without slug is
\* announced as a dry run; then crawl_dir is called on the path
SlugRun ==
    /\ pc = "run"
    /\ IF ~args.slug /\ args.all
       THEN /\ err' = "AllWithoutSlug"
            /\ pc' = "exit"
            /\ UNCHANGED <<pending, log>>
       ELSE /\ err' = err
            /\ pc' = "crawl"
            /\ pending' = <<Task("crawl_dir", args.path)>>
            /\ log' = IF ~args.slug THEN Append(log, Line("dry slug run", <<>>)) ELSE log
    /\ UNCHANGED <<args, stdout, stderr, exit_code, fs>>
    /\ UNCHANGED <<rqVars, archiveVars>>

\* crawl_dir, lines 84-90 and 110-112: a file is renamed; a directory is
\* read, and its entries and then itself are left to handle; anything else
\* is an error
CrawlDir ==
    /\ pc = "crawl"
    /\ pending # <<>>
    /\ Head(pending).op = "crawl_dir"
    /\ LET p == Head(pending).path
           s == SlugNew(args)
       IN IF IsFile(fs, p)
          THEN AfterCall(rename_entry(s, fs, p), Tail(pending))
          ELSE IF IsDir(fs, p)
          THEN \E entries \in Orderings(Children(fs, p)) :
                  AfterCall(Outcome(fs, "none", <<Line("scanning dir", p)>>),
                            [i \in 1..Len(entries) |-> Task("entry", entries[i])]
                               \o <<Task("rename_dir", p)>> \o Tail(pending))
          ELSE AfterCall(Outcome(fs, "UnableToHandle", <<>>), Tail(pending))
    /\ UNCHANGED <<args, stdout, stderr, exit_code>>
    /\ UNCHANGED <<rqVars, archiveVars>>

\* crawl_dir, lines 91-104: one entry of the directory: a directory is
\* crawled when crawl is set, a file is renamed, anything else is skipped
VisitEntry ==
    /\ pc = "crawl"
    /\ pending # <<>>
    /\ Head(pending).op = "entry"
    /\ LET entry_path == Head(pending).path
           s == SlugNew(args)
       IN IF IsDir(fs, entry_path)
          THEN AfterCall(Outcome(fs, "none", <<>>),
                         (IF s.crawl THEN <<Task("crawl_dir", entry_path)>> ELSE <<>>)
                            \o Tail(pending))
          ELSE IF IsFile(fs, entry_path)
          THEN AfterCall(rename_entry(s, fs, entry_path), Tail(pending))
          ELSE AfterCall(Outcome(fs, "none", <<Line("skipping", entry_path)>>),
                         Tail(pending))
    /\ UNCHANGED <<args, stdout, stderr, exit_code>>
    /\ UNCHANGED <<rqVars, archiveVars>>

\* crawl_dir, lines 105-108: the directory itself, once everything inside
\* is handled
RenameDir ==
    /\ pc = "crawl"
    /\ pending # <<>>
    /\ Head(pending).op = "rename_dir"
    /\ LET p == Head(pending).path
           s == SlugNew(args)
       IN IF s.include_dirs
          THEN AfterCall(rename_entry(s, fs, p), Tail(pending))
          ELSE AfterCall(Outcome(fs, "none", <<>>), Tail(pending))
    /\ UNCHANGED <<args, stdout, stderr, exit_code>>
    /\ UNCHANGED <<rqVars, archiveVars>>

-----------------------------------------------------------------------------
(* The slug crate: the runs of the model.                                  *)

\* the directory slug is started on, and a path that names nothing
RootPath == <<<<"R", " ", "d">>>>
MissingPath == <<<<"m">>>>

\* the entries a directory of the model may hold: files whose names need a
\* slug, a file and a dangling link that already have the slugged name, a
\* hidden file and a directory
Entry(name, kind) == [name |-> name, kind |-> kind]
SubdirName == <<"S", " ", "d">>
RootEntries ==
    {Entry(<<"a", " ", "b">>, "file"), Entry(<<"A", " ", "b">>, "file"),
     Entry(<<"a", "-", "b">>, "file"), Entry(<<"a", "-", "b">>, "link"),
     Entry(<<".", "a", " ", "b">>, "file"), Entry(SubdirName, "dir")}
SubdirEntries ==
    {Entry(<<"c", " ", "d">>, "file"), Entry(<<"c", "-", "d">>, "file")}

\* the contents a directory may have: at most MaxEntries of the entries,
\* no two of one name
Contents(entries) ==
    {c \in SUBSET entries :
        /\ Cardinality(c) <= MaxEntries
        /\ \A x, y \in c : x.name = y.name => x = y}

\* the file system with the directory d and the entries c in it
Populate(d, c) ==
    [p \in {Append(d, x.name) : x \in c} |->
        (CHOOSE x \in c : Append(d, x.name) = p).kind]

\* the trees of the model: the root with its contents, and the contents of
\* its subdirectory when it has one
Trees ==
    UNION {{(RootPath :> "dir") @@ Populate(RootPath, c)
                @@ Populate(Append(RootPath, SubdirName), d) :
               d \in {sub \in Contents(SubdirEntries) :
                         sub # {} => Entry(SubdirName, "dir") \in c}} :
           c \in Contents(RootEntries)}

\* the names a single file is given: every text over the alphabet that can
\* name a file
NameAlphabet == {"A", "a", " ", "-", "_", ".", "!"}
FileNames ==
    TextsUpTo(NameAlphabet, MaxNameLen) \ {<<>>, <<".">>, <<".", ".">>}

\* the separators given with --separator
Separators == {None, Some("_")}

\* Args of slug (lines 11-60) for a path, with any combination of flags
SlugArgs(p) ==
    [path : {p}, crawl : BOOLEAN, dirs : BOOLEAN, slug : BOOLEAN, all : BOOLEAN,
     hidden : BOOLEAN, ignore : BOOLEAN, separator : Separators]

\* the state after Args::parse in main of slug: slug is started on the root
\* of a tree with any flags, or on a path that names nothing, or on one
\* file of any name
InitSlug ==
    /\ \/ fs \in Trees /\ args \in SlugArgs(RootPath)
       \/ fs \in Trees /\ args \in {a \in SlugArgs(MissingPath) : a.slug /\ ~a.crawl /\ ~a.dirs}
       \/ \E name \in FileNames :
             /\ fs = (RootPath :> "dir") @@ (Append(RootPath, name) :> "file")
             /\ args \in {a \in SlugArgs(Append(RootPath, name)) :
                            a.hidden /\ ~a.ignore /\ ~a.crawl /\ ~a.dirs}
    /\ pc = "run"
    /\ pending = <<>>
    /\ log = <<>>
    /\ err = "none"
    /\ stdout = <<>>
    /\ stderr = <<>>
    /\ exit_code = -1
    /\ RqAtRest
    /\ ArchiveAtRest

\* the steps of slug; its main (main.rs, lines 19-22) ends as the main of
\* rq does
NextSlug ==
    \/ SlugRun
    \/ CrawlDir
    \/ VisitEntry
    \/ RenameDir
    \/ Exit

SpecSlug == InitSlug /\ [][NextSlug]_vars

-----------------------------------------------------------------------------
(* C16, C17, C18: what slug renames.                                       *)

\* slug was started on one file
OnOneFile == args.path \notin {RootPath, MissingPath}

\* the slug of a name as stated: the trimmed name in lower case, without
\* the characters that are not alphanumeric, '.' or '-', and with one
\* separator for each run of spaces
StatedSlug(name, separator) ==
    LET KeptAsStated(c) == IsAlphanumeric(c) \/ c = "." \/ c = "-" \/ c = " "
    IN PushChars(SelectSeq(ToLower(Trim(name)), KeptAsStated), 1,
                 UnwrapOr(separator, "-"), FALSE)

\* C16 as stated: a run in the all mode that renames one file without error
\* leaves it under the name that is its trimmed name in lower case, without
\* every character that is not alphanumeric, '.' or '-', and with each run
\* of spaces replaced by one separator, for the default and for a custom
\* separator.
C16_SlugginateAsStated ==
    (pc = "done" /\ err = "none" /\ OnOneFile /\ args.all /\ args.slug)
        => IsFile(fs, WithFileName(args.path,
                                   StatedSlug(FileName(args.path), args.separator)))

\* C17: in a run without the slug flag no step changes the file system:
\* every file and directory keeps its name, whatever the other flags.
C17_DryRunRenamesNothing == [][~args.slug => fs' = fs]_vars

\* C17 witness: a dry run over a tree, with crawl and dirs, has ended after
\* it logged entries it would rename.
C17_Witness ==
    /\ pc = "done"
    /\ ~args.slug
    /\ args.crawl
    /\ args.dirs
    /\ Cardinality({i \in 1..Len(log) : log[i].kind = "SLUGGED"}) >= 2

\* C18 as stated: no step of a crawl renames an entry onto a path that is
\* already an entry of the file system, so that no entry is ever lost.
C18_NothingOverwritten ==
    [][Cardinality(DOMAIN fs') = Cardinality(DOMAIN fs)]_vars

====
